---- MODULE Spec2Model ----
(***************************************************************************)
(* Model of backend/server.py: the two tools encontrar_pedidos_cliente     *)
(* (customer resolution over the paginated ListarClientes directory, then  *)
(* ListarPedidos, sort and cut) and responder_pergunta_sobre_pedidos (the  *)
(* LLM-driven orchestration around it).                                    *)
(*                                                                         *)
(* Python values are modelled as follows.  A str is a sequence of          *)
(* one-character strings.  An Optional[str] is a sequence of at most one   *)
(* str: <<>> is None, <<s>> is the string s.  A customer id is a natural   *)
(* number, 0 standing for a missing (None) codigo_cliente_omie.            *)
(***************************************************************************)
EXTENDS Integers, Sequences, FiniteSets, TLC

VARIABLES
    pc,                         \* position of the running invocation
    caller,                     \* "tool" (called directly) or "ia" (called by the orchestrator)
    cnpj_cpf,                   \* Optional[str] argument
    nome_fantasia,              \* Optional[str] argument
    cidade,                     \* Optional[str] argument
    normalized_input_cnpj_cpf,  \* Optional[str] local
    current_page,
    total_pages,
    customer_id,
    found_customer_details,     \* <<>> (None) or <<record>>
    possible_matches_by_name,   \* sequence of customer records
    calls,                      \* every external request issued so far, in order
    first_total,                \* total_de_paginas as the page-1 payload reported it
    total_changed,              \* history: a later payload reported another total_de_paginas
    seen_cnpj,                  \* history: records received whose digits-only tax-id equals the hint's
    seen_nome,                  \* history: records received whose display name contains the name hint
    pedidos_venda_produto,      \* the ListarPedidos payload received (upstream order)
    sort_failed,                \* whether sorted() raised in this invocation
    result,                     \* what encontrar_pedidos_cliente returned
    raw_response_text,          \* the structuring LLM reply
    dados_interpretados,        \* json.loads of the stripped reply
    ia_result,                  \* what responder_pergunta_sobre_pedidos returned or raised
    exchange,                   \* call_omie_api: what client.post meets (failure, status, body)
    api_response,               \* call_omie_api: the dict it returned
    inv                         \* concurrent invocations of the tool: each one's position, arguments,
                                \* frame of locals, responses received and result

vars == <<pc, caller, cnpj_cpf, nome_fantasia, cidade, normalized_input_cnpj_cpf,
          current_page, total_pages, customer_id, found_customer_details,
          possible_matches_by_name, calls, first_total, total_changed, seen_cnpj,
          seen_nome, pedidos_venda_produto,
          sort_failed, result, raw_response_text, dados_interpretados, ia_result,
          exchange, api_response, inv>>

argVars == <<cnpj_cpf, nome_fantasia, cidade>>
scanVars == <<normalized_input_cnpj_cpf, current_page, total_pages, customer_id,
              found_customer_details, possible_matches_by_name>>
histVars == <<first_total, total_changed, seen_cnpj, seen_nome>>
pedidoVars == <<pedidos_venda_produto, sort_failed>>
iaVars == <<raw_response_text, dados_interpretados, ia_result>>
apiVars == <<exchange, api_response>>

----------------------------------------------------------------------------
(* Bounds of the model. *)

\* Largest page number the directory announces or serves.
MaxPages == 2
\* Most customer records on one directory page.
MaxRecs == 2
\* Most orders in one ListarPedidos payload.
MaxOrders == 4

----------------------------------------------------------------------------
(* Strings. *)

Digits == {"0", "1", "2", "3", "4", "5", "6", "7", "8", "9"}

\* str.isdigit on one character
IsDigit(c) == c \in Digits

\* str.lower on one character (the alphabet of the model has two capitals)
LowerChar(c) == IF c = "A" THEN "a" ELSE IF c = "B" THEN "b" ELSE c

\* str.lower
Lower(s) == [i \in 1..Len(s) |-> LowerChar(s[i])]

\* ''.join(filter(str.isdigit, s))
OnlyDigits(s) == SelectSeq(s, IsDigit)

\* needle in hay (substring test)
Contains(hay, needle) ==
    \E i \in 0..(Len(hay) - Len(needle)) :
        \A j \in 1..Len(needle) : hay[i + j] = needle[j]

None == <<>>
Some(s) == <<s>>

\* Python truthiness of an Optional[str]: None and "" are falsy.
Truthy(o) == o # <<>> /\ o[1] # <<>>

\* Mutant of AnyHint: "is not None" in place of truthiness.
AnyHintNotNone(c, n, d) == c # None \/ n # None \/ d # None

\* any([cnpj_cpf, nome_fantasia, cidade])
AnyHint(c, n, d) == Truthy(c) \/ Truthy(n) \/ Truthy(d)

\* ''.join(filter(str.isdigit, cnpj_cpf)) if cnpj_cpf else None
NormalizeInput(c) == IF Truthy(c) THEN Some(OnlyDigits(c[1])) ELSE None

----------------------------------------------------------------------------
(* Return values.  Every return value has the same shape: a kind ("str",  *)
(* "list", or "none" while nothing was returned), the message of a string  *)
(* result, its numeric parameter, and the formatted orders of a list.      *)

NoResult == [kind |-> "none", msg |-> "", n |-> 0, orders |-> <<>>]
Str(m, k) == [kind |-> "str", msg |-> m, n |-> k, orders |-> <<>>]
Lst(os) == [kind |-> "list", msg |-> "", n |-> 0, orders |-> os]
\* An exception that leaves the tool instead of a return value.
Raised(e) == [kind |-> "raise", msg |-> e, n |-> 0, orders |-> <<>>]

\* What json.loads returns: a dict (with what .get gives for the four keys
\* read), a list, a number, or JSONDecodeError.
JDict(sp, c, n, d) ==
    [tipo |-> "dict", sobre_pedidos |-> sp, cnpj_cpf |-> c, nome_fantasia |-> n, cidade |-> d]
JOther(t) ==
    [tipo |-> t, sobre_pedidos |-> "ausente", cnpj_cpf |-> None, nome_fantasia |-> None,
     cidade |-> None]

----------------------------------------------------------------------------
(* call_omie_api (server.py 37-83): one POST, mapped to the JSON body or    *)
(* to the uniform error object.                                            *)

\* What .get gives for a key of the body: the key is missing, or its value is
\* null, the empty string, or a non-empty string.
JsonValues == {"ausente", "null", "vazio", "texto"}

\* Python truthiness of such a value
ValueTruthy(v) == v = "texto"

\* A response body: no JSON at all, a JSON list, or a JSON object with its
\* faultstring and faultcode and with or without the payload keys.
InvalidBody == [tipo |-> "invalid", faultstring |-> "ausente", faultcode |-> "ausente",
                payload |-> FALSE]
ListBody == [tipo |-> "list", faultstring |-> "ausente", faultcode |-> "ausente",
             payload |-> FALSE]
DictBody(fs, fc, pl) == [tipo |-> "dict", faultstring |-> fs, faultcode |-> fc, payload |-> pl]
NoBody == [tipo |-> "none", faultstring |-> "ausente", faultcode |-> "ausente",
           payload |-> FALSE]

\* What client.post meets: a transport failure (httpx.RequestError), or a
\* response with a status and a body.
RequestFailed == [falha |-> TRUE, status |-> 0, corpo |-> NoBody]
HttpResponse(st, b) == [falha |-> FALSE, status |-> st, corpo |-> b]

\* response.raise_for_status() passes
IsSuccessStatus(st) == st >= 200 /\ st <= 299

\* The two shapes call_omie_api returns: the uniform error object (status 0
\* for status_code None), or the body itself.
ApiError(st, m) == [error |-> TRUE, status_code |-> st, message |-> m, corpo |-> NoBody]
ApiBody(b) == [error |-> FALSE, status_code |-> 0, message |-> "", corpo |-> b]
NoApiResponse == [error |-> FALSE, status_code |-> 0, message |-> "", corpo |-> NoBody]

\* server.py 68: the fault test on the body
HasFault(b) == ValueTruthy(b.faultstring) \/ ValueTruthy(b.faultcode)

\* server.py 70: response_json.get('faultstring', 'Erro desconhecido da Omie')
FaultMessage(b) ==
    IF b.faultstring = "ausente" THEN "Erro desconhecido da Omie" ELSE b.faultstring

\* server.py 58-83
CallOmieApiResult(x) ==
    IF x.falha THEN ApiError(0, "RequestError")
    ELSE IF ~IsSuccessStatus(x.status) THEN ApiError(x.status, "response.text")
    ELSE IF x.corpo.tipo = "invalid"
    THEN ApiError(x.status, "Falha ao decodificar a resposta da API Omie")
    ELSE IF x.corpo.tipo # "dict"
    THEN ApiError(0, "Erro inesperado no processamento da API")
    ELSE IF HasFault(x.corpo) THEN ApiError(x.status, FaultMessage(x.corpo))
    ELSE ApiBody(x.corpo)

----------------------------------------------------------------------------
(* The records API as the resolver sees it. *)

\* total_de_paginas missing from a ListarClientes payload
Absent == -1

\* A directory entry: cnpj_cpf and nome_fantasia as the upstream formats them
\* ("" when the key is missing), codigo_cliente_omie (0 when missing).
Cliente(c, n, i) == [cnpj_cpf |-> c, nome_fantasia |-> n, codigo_cliente_omie |-> i]

ClienteRecords ==
    { Cliente(<<"1", ".">>, <<"a">>, 1),
      Cliente(<<"1">>, <<"A", "b">>, 2),
      Cliente(<<"1", ".">>, <<"b">>, 0),
      Cliente(<<>>, <<"a">>, 4) }

\* The record lists a directory page can carry: no customer twice on a page.
RECURSIVE PagesOfLen(_)
PagesOfLen(k) ==
    IF k = 0 THEN {<<>>}
    ELSE { Append(p, r) : p \in PagesOfLen(k - 1), r \in ClienteRecords }

PageContents ==
    { p \in UNION { PagesOfLen(k) : k \in 0..MaxRecs } :
        \A i, j \in 1..Len(p) : i # j => p[i] # p[j] }

\* What call_omie_api hands back for ListarClientes: the uniform error object
\* or the payload (total_de_paginas, clientes_cadastro).
ErrorResponse == [error |-> TRUE, total_de_paginas |-> Absent, clientes_cadastro |-> <<>>]
ClientePayload(t, cs) == [error |-> FALSE, total_de_paginas |-> t, clientes_cadastro |-> cs]

TotalVals == {Absent} \cup (0..MaxPages)

ClienteResponses ==
    {ErrorResponse} \cup { ClientePayload(t, cs) : t \in TotalVals, cs \in PageContents }

\* A request as call_omie_api sends it.  clientesFiltro is a dict, modelled as
\* the set of its <<key, value>> pairs; cliente is filtrar_por_cliente.
Request(c, p, r, f, i) ==
    [call |-> c, pagina |-> p, registros_por_pagina |-> r, clientesFiltro |-> f,
     cliente |-> i]

\* Mutant of ClienteFilter: every hint given goes into the filter.
ClienteFilterEveryHint(norm, n, d) ==
    (IF Truthy(norm) THEN {<<"cnpj_cpf", norm[1]>>} ELSE {})
    \cup (IF Truthy(n) THEN {<<"nome_fantasia", n[1]>>} ELSE {})
    \cup (IF Truthy(d) THEN {<<"cidade", d[1]>>} ELSE {})

\* server.py 125-131: the server-side filter, by strict priority
ClienteFilter(norm, n, d) ==
    IF Truthy(norm) THEN {<<"cnpj_cpf", norm[1]>>}
    ELSE IF Truthy(n) THEN {<<"nome_fantasia", n[1]>>}
    ELSE IF Truthy(d) THEN {<<"cidade", d[1]>>}
    ELSE {}

\* server.py 140-147: the ListarClientes request for one page
ListarClientesRequest(p, norm, n, d) ==
    Request("ListarClientes", p, 50, ClienteFilter(norm, n, d), 0)

\* server.py 211-219: the ListarPedidos request (page 1 only)
ListarPedidosRequest(id) == Request("ListarPedidos", 1, 50, {}, id)

----------------------------------------------------------------------------
(* encontrar_pedidos_cliente: the page scan (server.py 156-176). *)

\* The locals the scan of one page reads and writes; dup is the early return
\* of line 165 (a second record with the same tax-id).
ScanState(cid, found, matches, dup) ==
    [customer_id |-> cid, found_customer_details |-> found,
     possible_matches_by_name |-> matches, dup |-> dup]

\* Mutant of IsDirectHit: the directory's tax-id compared as formatted.
IsDirectHitRaw(norm, cliente) == Truthy(norm) /\ cliente.cnpj_cpf = norm[1]

\* server.py 163: a direct hit
IsDirectHit(norm, cliente) ==
    Truthy(norm) /\ OnlyDigits(cliente.cnpj_cpf) = norm[1]

\* Mutant of IsNameMatch: a missing name hint is compared as the empty string.
IsNameMatchNoGuard(norm, n, cliente) ==
    /\ ~Truthy(norm)
    /\ Contains(Lower(cliente.nome_fantasia), IF n = None THEN <<>> ELSE Lower(n[1]))

\* server.py 171: a name match (only without a usable tax-id)
IsNameMatch(norm, n, cliente) ==
    /\ Truthy(n)
    /\ ~Truthy(norm)
    /\ Contains(Lower(cliente.nome_fantasia), Lower(n[1]))

\* Mutant of ScanPage: the first name match is taken as the customer at once.
RECURSIVE ScanPageStopAtName(_, _, _, _, _)
ScanPageStopAtName(recs, i, norm, n, st) ==
    IF i > Len(recs) THEN st
    ELSE IF IsDirectHit(norm, recs[i])
    THEN IF st.found_customer_details # None
         THEN [st EXCEPT !.dup = TRUE]
         ELSE [st EXCEPT !.found_customer_details = <<recs[i]>>,
                         !.customer_id = recs[i].codigo_cliente_omie]
    ELSE IF IsNameMatch(norm, n, recs[i])
    THEN [st EXCEPT !.possible_matches_by_name = Append(@, recs[i]),
                    !.found_customer_details = <<recs[i]>>,
                    !.customer_id = recs[i].codigo_cliente_omie]
    ELSE ScanPageStopAtName(recs, i + 1, norm, n, st)

\* server.py 159-173: the for loop over one page's records, from record i on
RECURSIVE ScanPage(_, _, _, _, _)
ScanPage(recs, i, norm, n, st) ==
    IF i > Len(recs) THEN st
    ELSE IF IsDirectHit(norm, recs[i])
    THEN IF st.found_customer_details # None
         THEN [st EXCEPT !.dup = TRUE]
         ELSE [st EXCEPT !.found_customer_details = <<recs[i]>>,
                         !.customer_id = recs[i].codigo_cliente_omie]
    ELSE IF IsNameMatch(norm, n, recs[i])
    THEN ScanPage(recs, i + 1, norm, n,
                  [st EXCEPT !.possible_matches_by_name = Append(@, recs[i])])
    ELSE ScanPage(recs, i + 1, norm, n, st)

\* Mutant of NextTotalPages: the bound re-read from every response.
NextTotalPagesEveryPage(page, total, resp) ==
    IF resp.total_de_paginas = Absent THEN 1 ELSE resp.total_de_paginas

\* server.py 152-153: the page bound, read from the first response only
NextTotalPages(page, total, resp) ==
    IF page = 1
    THEN (IF resp.total_de_paginas = Absent THEN 1 ELSE resp.total_de_paginas)
    ELSE total

----------------------------------------------------------------------------
(* encontrar_pedidos_cliente: after the loop (server.py 188-205). *)

\* Mutant of UniqueNames: the matches keyed by record instead of by name.
UniqueRecords(matches) == { matches[i] : i \in 1..Len(matches) }

\* The distinct display names of the matches: the keys of unique_names.
UniqueNames(matches) == { matches[i].nome_fantasia : i \in 1..Len(matches) }

\* list(unique_names.values())[0]: a dict comprehension keeps the first key's
\* position and the last value stored under it.
FirstUniqueValue(matches) ==
    LET same == { i \in 1..Len(matches) : matches[i].nome_fantasia = matches[1].nome_fantasia }
    IN matches[CHOOSE i \in same : \A j \in same : j <= i]

\* server.py 188-205: the decision.  ret is the string returned, or NoResult
\* when a customer was resolved (customer_id, found_customer_details).
Decide(st) ==
    LET ms == st.possible_matches_by_name
        byName ==
            IF st.customer_id = 0 /\ ms # <<>>
            THEN IF Len(ms) = 1
                 THEN [ret |-> NoResult, found |-> <<ms[1]>>, cid |-> ms[1].codigo_cliente_omie]
                 ELSE IF Cardinality(UniqueNames(ms)) = 1
                 THEN [ret |-> NoResult, found |-> <<FirstUniqueValue(ms)>>,
                       cid |-> FirstUniqueValue(ms).codigo_cliente_omie]
                 ELSE [ret |-> Str("MultiplosNomeFantasia", Cardinality(UniqueNames(ms))),
                       found |-> st.found_customer_details, cid |-> st.customer_id]
            ELSE [ret |-> NoResult, found |-> st.found_customer_details, cid |-> st.customer_id]
    IN IF byName.ret # NoResult THEN byName
       ELSE IF byName.cid = 0 \/ byName.found = None
       THEN [byName EXCEPT !.ret = Str("NaoEncontradoAposPaginas", 0)]
       ELSE byName

----------------------------------------------------------------------------
(* encontrar_pedidos_cliente: the orders (server.py 225-282). *)

\* How many orders are kept: pedidos_ordenados[:3]
RecentLimit == 3

\* registros_por_pagina of both requests
PageSize == 50

\* The value under cabecalho.numero_pedido: a str, an int, or no key at all.
StrKey(s) == [tipo |-> "str", s |-> s, v |-> 0]
IntKey(v) == [tipo |-> "int", s |-> <<>>, v |-> v]
NoKey == [tipo |-> "ausente", s |-> <<>>, v |-> 0]

\* An upstream order: its cabecalho (an object, or null), and in it the order
\* number and the stage (etapa).
Pedido(k, e) == [cabecalho |-> "dict", numero_pedido |-> k, etapa |-> e]
PedidoSemCabecalho == [cabecalho |-> "null", numero_pedido |-> NoKey, etapa |-> ""]

\* server.py 245, 271: .get on a cabecalho that is no object raises AttributeError
CabecalhoRaises(p) == p.cabecalho # "dict"

\* server.py 245: p.get("cabecalho", {}).get("numero_pedido", "0")
SortKey(p) == IF p.numero_pedido.tipo = "ausente" THEN StrKey(<<"0">>) ELSE p.numero_pedido

\* ord() of a digit character
CharCode(c) == CHOOSE n \in 0..9 : <<"0", "1", "2", "3", "4", "5", "6", "7", "8", "9">>[n + 1] = c

\* Python's str < str: by code point at the first difference, a proper prefix first
StrLess(a, b) ==
    \E k \in 1..(Len(b)) :
        /\ \A j \in 1..(k - 1) : j <= Len(a) /\ a[j] = b[j]
        /\ \/ k = Len(a) + 1
           \/ k <= Len(a) /\ CharCode(a[k]) < CharCode(b[k])

\* Mutant of KeyLess: order numbers compared as numbers (shorter first).
KeyLessNumeric(a, b) ==
    IF a.tipo = "int" THEN a.v < b.v
    ELSE Len(a.s) < Len(b.s) \/ (Len(a.s) = Len(b.s) /\ StrLess(a.s, b.s))

\* Python's < on two sort keys of one type
KeyLess(a, b) == IF a.tipo = "int" THEN a.v < b.v ELSE StrLess(a.s, b.s)

\* sorted() raises: the key function does (AttributeError), or a str key
\* meets an int key (TypeError)
SortRaises(pedidos) ==
    \/ \E i \in 1..Len(pedidos) : CabecalhoRaises(pedidos[i])
    \/ \E i, j \in 1..Len(pedidos) : SortKey(pedidos[i]).tipo # SortKey(pedidos[j]).tipo

\* Where a stable descending sort puts x in an already sorted list: before the
\* first element whose key is smaller.
InsertDesc(sorted, x) ==
    LET smaller == { i \in 1..Len(sorted) : KeyLess(SortKey(sorted[i]), SortKey(x)) }
        at == IF smaller = {} THEN Len(sorted) + 1
              ELSE CHOOSE i \in smaller : \A j \in smaller : i <= j
    IN SubSeq(sorted, 1, at - 1) \o <<x>> \o SubSeq(sorted, at, Len(sorted))

\* sorted(pedidos, key=..., reverse=True) on the first n orders
RECURSIVE SortedDesc(_, _)
SortedDesc(pedidos, n) ==
    IF n = 0 THEN <<>> ELSE InsertDesc(SortedDesc(pedidos, n - 1), pedidos[n])

\* server.py 242-250: sort, or the upstream order when sorting raised
PedidosOrdenados(pedidos) ==
    IF SortRaises(pedidos) THEN pedidos ELSE SortedDesc(pedidos, Len(pedidos))

\* server.py 252: pedidos_ordenados[:3]
RecentOrders(ordenados) ==
    SubSeq(ordenados, 1, IF Len(ordenados) < RecentLimit THEN Len(ordenados) ELSE RecentLimit)

\* server.py 270-276: the summary of one order ("N/A" for a missing number)
FormatOrder(p) ==
    [numero_pedido |-> IF p.numero_pedido.tipo = "ausente"
                       THEN StrKey(<<"N", "/", "A">>) ELSE p.numero_pedido,
     etapa_pedido |-> p.etapa]

\* server.py 256-276
FormattedOrders(recent) == [i \in 1..Len(recent) |-> FormatOrder(recent[i])]

\* server.py 222-282: what the tool returns for a ListarPedidos response
PedidosResult(resp, cid) ==
    IF resp.error THEN Str("ErroBuscarPedidos", 0)
    ELSE IF resp.pedido_venda_produto = <<>> THEN Str("NenhumPedidoEncontrado", cid)
    ELSE LET recent == RecentOrders(PedidosOrdenados(resp.pedido_venda_produto))
         IN IF \E i \in 1..Len(recent) : CabecalhoRaises(recent[i])
            THEN Raised("AttributeError")
            ELSE IF FormattedOrders(recent) = <<>> THEN Str("NenhumPedidoProcessado", cid)
            ELSE Lst(FormattedOrders(recent))

PedidoErrorResponse == [error |-> TRUE, pedido_venda_produto |-> <<>>]
PedidoPayload(ps) == [error |-> FALSE, pedido_venda_produto |-> ps]

----------------------------------------------------------------------------
(* encontrar_pedidos_cliente as a process: one action per stretch of code  *)
(* between two awaits.                                                     *)

\* The coroutine returns r: to the tool host, or into the orchestrator.
Return(r) ==
    /\ result' = r
    /\ pc' = IF caller = "tool" THEN "done" ELSE "ia_retorno"

\* History: the records of a payload whose digits-only tax-id equals the
\* digits-only tax-id hint, and those whose display name contains the name
\* hint whatever the case, each with the page it came on.
TaxIdEqual(cliente) == Truthy(cnpj_cpf) /\ OnlyDigits(cliente.cnpj_cpf) = OnlyDigits(cnpj_cpf[1])
NameContains(cliente) ==
    Truthy(nome_fantasia) /\ Contains(Lower(cliente.nome_fantasia), Lower(nome_fantasia[1]))
Seen(p, cliente) == [pagina |-> p, cliente |-> cliente]
RECURSIVE SeenOn(_, _, _, _)
SeenOn(p, recs, i, cnpj) ==
    IF i > Len(recs) THEN <<>>
    ELSE (IF (IF cnpj THEN TaxIdEqual(recs[i]) ELSE NameContains(recs[i]))
          THEN <<Seen(p, recs[i])>> ELSE <<>>) \o SeenOn(p, recs, i + 1, cnpj)

\* server.py 100-147: validation, the locals, the request for page 1
Iniciar ==
    /\ pc = "inicio"
    /\ IF ~AnyHint(cnpj_cpf, nome_fantasia, cidade)
       THEN /\ Return(Str("ErroValidacao", 0))
            /\ UNCHANGED <<scanVars, calls>>
       ELSE /\ normalized_input_cnpj_cpf' = NormalizeInput(cnpj_cpf)
            /\ current_page' = 1
            /\ total_pages' = 1
            /\ customer_id' = 0
            /\ found_customer_details' = None
            /\ possible_matches_by_name' = <<>>
            /\ calls' = Append(calls, ListarClientesRequest(
                            1, NormalizeInput(cnpj_cpf), nome_fantasia, cidade))
            /\ pc' = "aguarda_clientes"
            /\ UNCHANGED result
    /\ UNCHANGED <<inv, apiVars, caller, argVars, histVars, pedidoVars, iaVars>>

\* server.py 188-219 once the loop is left with the locals st: an error
\* string, or the ListarPedidos request
LeaveLoop(st) ==
    LET d == Decide(st)
    IN /\ customer_id' = d.cid
       /\ found_customer_details' = d.found
       /\ possible_matches_by_name' = st.possible_matches_by_name
       /\ IF d.ret # NoResult
          THEN Return(d.ret) /\ UNCHANGED calls
          ELSE /\ calls' = Append(calls, ListarPedidosRequest(d.cid))
               /\ pc' = "aguarda_pedidos"
               /\ UNCHANGED result

\* Mutant of ReceberClientesDe: the loop runs while current_page <= total_pages + 1.
ReceberClientesDeOneMore(responses) ==
    /\ pc = "aguarda_clientes"
    /\ \E resp \in responses :
        LET tp == NextTotalPages(current_page, total_pages, resp)
            st == ScanPage(resp.clientes_cadastro, 1, normalized_input_cnpj_cpf,
                           nome_fantasia,
                           ScanState(customer_id, found_customer_details,
                                     possible_matches_by_name, FALSE))
        IN IF resp.error
           THEN /\ Return(Str("ErroBuscarCliente", current_page))
                /\ UNCHANGED <<scanVars, calls, histVars>>
           ELSE /\ first_total' = IF current_page = 1 THEN resp.total_de_paginas ELSE first_total
                /\ total_changed' = (total_changed \/ (current_page > 1 /\ resp.total_de_paginas # first_total))
                /\ seen_cnpj' = seen_cnpj \o SeenOn(current_page, resp.clientes_cadastro, 1, TRUE)
                /\ seen_nome' = seen_nome \o SeenOn(current_page, resp.clientes_cadastro, 1, FALSE)
                /\ total_pages' = tp
                /\ UNCHANGED normalized_input_cnpj_cpf
                /\ IF st.dup
                   THEN /\ Return(Str("MultiplosCnpjCpf", 0))
                        /\ customer_id' = st.customer_id
                        /\ found_customer_details' = st.found_customer_details
                        /\ possible_matches_by_name' = st.possible_matches_by_name
                        /\ UNCHANGED <<current_page, calls>>
                   ELSE IF st.customer_id # 0
                   THEN LeaveLoop(st) /\ UNCHANGED current_page
                   ELSE IF resp.clientes_cadastro = <<>> /\ current_page = 1 /\ tp = 1
                   THEN /\ Return(Str("NaoEncontradoPrimeiraPagina", 0))
                        /\ UNCHANGED <<current_page, customer_id, found_customer_details,
                                       possible_matches_by_name, calls>>
                   ELSE /\ current_page' = current_page + 1
                        /\ IF current_page + 1 <= tp + 1
                           THEN /\ calls' = Append(calls, ListarClientesRequest(
                                         current_page + 1, normalized_input_cnpj_cpf,
                                         nome_fantasia, cidade))
                                /\ customer_id' = st.customer_id
                                /\ found_customer_details' = st.found_customer_details
                                /\ possible_matches_by_name' = st.possible_matches_by_name
                                /\ pc' = "aguarda_clientes"
                                /\ UNCHANGED result
                           ELSE LeaveLoop(st)
    /\ UNCHANGED <<inv, apiVars, caller, argVars, pedidoVars, iaVars>>

\* server.py 147-184 (and 117-147 for the next page, 188-219 after the last):
\* the ListarClientes response arrives
ReceberClientesDe(responses) ==
    /\ pc = "aguarda_clientes"
    /\ \E resp \in responses :
        LET tp == NextTotalPages(current_page, total_pages, resp)
            st == ScanPage(resp.clientes_cadastro, 1, normalized_input_cnpj_cpf,
                           nome_fantasia,
                           ScanState(customer_id, found_customer_details,
                                     possible_matches_by_name, FALSE))
        IN IF resp.error
           THEN /\ Return(Str("ErroBuscarCliente", current_page))
                /\ UNCHANGED <<scanVars, calls, histVars>>
           ELSE /\ first_total' = IF current_page = 1 THEN resp.total_de_paginas ELSE first_total
                /\ total_changed' = (total_changed \/ (current_page > 1 /\ resp.total_de_paginas # first_total))
                /\ seen_cnpj' = seen_cnpj \o SeenOn(current_page, resp.clientes_cadastro, 1, TRUE)
                /\ seen_nome' = seen_nome \o SeenOn(current_page, resp.clientes_cadastro, 1, FALSE)
                /\ total_pages' = tp
                /\ UNCHANGED normalized_input_cnpj_cpf
                /\ IF st.dup
                   THEN /\ Return(Str("MultiplosCnpjCpf", 0))
                        /\ customer_id' = st.customer_id
                        /\ found_customer_details' = st.found_customer_details
                        /\ possible_matches_by_name' = st.possible_matches_by_name
                        /\ UNCHANGED <<current_page, calls>>
                   ELSE IF st.customer_id # 0
                   THEN LeaveLoop(st) /\ UNCHANGED current_page
                   ELSE IF resp.clientes_cadastro = <<>> /\ current_page = 1 /\ tp = 1
                   THEN /\ Return(Str("NaoEncontradoPrimeiraPagina", 0))
                        /\ UNCHANGED <<current_page, customer_id, found_customer_details,
                                       possible_matches_by_name, calls>>
                   ELSE /\ current_page' = current_page + 1
                        /\ IF current_page + 1 <= tp
                           THEN /\ calls' = Append(calls, ListarClientesRequest(
                                         current_page + 1, normalized_input_cnpj_cpf,
                                         nome_fantasia, cidade))
                                /\ customer_id' = st.customer_id
                                /\ found_customer_details' = st.found_customer_details
                                /\ possible_matches_by_name' = st.possible_matches_by_name
                                /\ pc' = "aguarda_clientes"
                                /\ UNCHANGED result
                           ELSE LeaveLoop(st)
    /\ UNCHANGED <<inv, apiVars, caller, argVars, pedidoVars, iaVars>>

\* server.py 219-282: the ListarPedidos response arrives
ReceberPedidosDe(responses) ==
    /\ pc = "aguarda_pedidos"
    /\ \E resp \in responses :
        /\ pedidos_venda_produto' = resp.pedido_venda_produto
        /\ sort_failed' = (~resp.error /\ SortRaises(resp.pedido_venda_produto))
        /\ Return(PedidosResult(resp, customer_id))
    /\ UNCHANGED <<inv, apiVars, caller, argVars, scanVars, calls, histVars, iaVars>>

----------------------------------------------------------------------------
(* The tool called directly by the host. *)

\* The argument values the host may pass.
CnpjHints == {None, Some(<<>>), Some(<<"-">>), Some(<<"1", "-">>)}
NomeHints == {None, Some(<<>>), Some(<<"A">>)}
CidadeHints == {None, Some(<<>>), Some(<<"c">>)}

\* The order numbers and stages the upstream may send.
PedidoRecords ==
    { Pedido(StrKey(<<"9">>), "10"), Pedido(StrKey(<<"9">>), "60"),
      Pedido(StrKey(<<"1", "0">>), "10"), Pedido(IntKey(7), "10"), Pedido(NoKey, "10"),
      PedidoSemCabecalho }

RECURSIVE PedidosOfLen(_)
PedidosOfLen(k) ==
    IF k = 0 THEN {<<>>}
    ELSE { Append(p, r) : p \in PedidosOfLen(k - 1), r \in PedidoRecords }

PedidoLists == UNION { PedidosOfLen(k) : k \in 0..MaxOrders }

PedidoResponses == {PedidoErrorResponse} \cup { PedidoPayload(ps) : ps \in PedidoLists }

\* The ListarPedidos responses of the full pipeline: an error, no order, one
\* order, one order without cabecalho, and one list longer than the cut.
PedidoSamples ==
    {PedidoErrorResponse, PedidoPayload(<<>>),
     PedidoPayload(<<Pedido(StrKey(<<"9">>), "10")>>),
     PedidoPayload(<<PedidoSemCabecalho>>),
     PedidoPayload(<<Pedido(StrKey(<<"1", "0">>), "10"), Pedido(StrKey(<<"9">>), "60"),
                     Pedido(NoKey, "10"), Pedido(StrKey(<<"9">>), "10")>>)}

\* The invocations that run concurrently.
Procs == {1, 2}

\* Mutant of Frame: the pagination state kept in one place for all invocations.
FrameShared(p) == 1

\* The frame that holds the locals of invocation p (server.py 106-115 are
\* assignments to local names of the coroutine): its own.
Frame(p) == p

\* The locals of one invocation
Loc(norm, page, total, cid, found, matches) ==
    [normalized_input_cnpj_cpf |-> norm, current_page |-> page, total_pages |-> total,
     customer_id |-> cid, found_customer_details |-> found,
     possible_matches_by_name |-> matches]

\* server.py 106-115
FreshLoc(c) == Loc(NormalizeInput(c), 1, 1, 0, None, <<>>)

\* An invocation that was called with the hints c, n, d and has not run yet.
Invocation(c, n, d) ==
    [pc |-> "inicio", cnpj_cpf |-> c, nome_fantasia |-> n, cidade |-> d,
     loc |-> FreshLoc(None), received |-> <<>>, result |-> NoResult]

\* No concurrent invocation is looked at.
InitInv == inv = [p \in Procs |-> Invocation(None, None, None)]

\* No call_omie_api exchange is looked at.
InitApi ==
    /\ exchange = RequestFailed
    /\ api_response = NoApiResponse

InitCommon ==
    /\ InitApi
    /\ InitInv
    /\ normalized_input_cnpj_cpf = None
    /\ current_page = 1
    /\ total_pages = 1
    /\ customer_id = 0
    /\ found_customer_details = None
    /\ possible_matches_by_name = <<>>
    /\ calls = <<>>
    /\ first_total = Absent
    /\ total_changed = FALSE
    /\ seen_cnpj = <<>>
    /\ seen_nome = <<>>
    /\ pedidos_venda_produto = <<>>
    /\ sort_failed = FALSE
    /\ result = NoResult

InitIA ==
    /\ raw_response_text = <<>>
    /\ dados_interpretados = JOther("none")
    /\ ia_result = NoResult

Init ==
    /\ pc = "inicio"
    /\ caller = "tool"
    /\ cnpj_cpf \in CnpjHints
    /\ nome_fantasia \in NomeHints
    /\ cidade \in CidadeHints
    /\ InitCommon
    /\ InitIA

ReceberClientes == ReceberClientesDe(ClienteResponses)
ReceberPedidos == ReceberPedidosDe(PedidoSamples)

Next == Iniciar \/ ReceberClientes \/ ReceberPedidos

Spec == Init /\ [][Next]_vars

\* The tool when the event loop runs the coroutine and every call_omie_api
\* returns (client.post has a 30 s timeout, server.py 62): no await is left
\* pending for ever.
SpecFair ==
    /\ Init
    /\ [][Next]_vars
    /\ WF_vars(Iniciar)
    /\ WF_vars(ReceberClientes)
    /\ WF_vars(ReceberPedidos)

----------------------------------------------------------------------------
(* responder_pergunta_sobre_pedidos: the structuring reply (server.py      *)
(* 331-338).  A reply is a text; its fence, label and whitespace           *)
(* characters are modelled one by one.  A JSON body is abbreviated: braces *)
(* around one symbol per member of the object, a pair of brackets for a    *)
(* list, the digit 1 for a number.                                         *)

IsSpace(c) == c \in {" ", "\n"}

\* str.strip()
Strip(s) ==
    LET keep == { i \in 1..Len(s) : ~IsSpace(s[i]) }
    IN IF keep = {} THEN <<>>
       ELSE SubSeq(s, CHOOSE i \in keep : \A j \in keep : i <= j,
                      CHOOSE i \in keep : \A j \in keep : j <= i)

\* str.startswith
StartsWith(s, prefix) == Len(s) >= Len(prefix) /\ SubSeq(s, 1, Len(prefix)) = prefix

\* s[a:-b] for a >= 0 and b > 0
Slice(s, a, b) == SubSeq(s, a + 1, Len(s) - b)

\* The three backquotes of a fence (a TLA+ string cannot hold a backquote: it
\* is written as a circumflex).
Fence == <<"^", "^", "^">>
JsonLabel == <<"j", "s", "o", "n">>

\* Mutant of ExtractJson: the json label is not skipped.
ExtractJsonNoLabel(raw) ==
    IF StartsWith(Strip(raw), Fence) THEN Strip(Slice(Strip(raw), 3, 3)) ELSE Strip(raw)

\* server.py 331-336: the text handed to json.loads
ExtractJson(raw) ==
    IF StartsWith(Strip(raw), Fence \o JsonLabel) THEN Strip(Slice(Strip(raw), 7, 3))
    ELSE IF StartsWith(Strip(raw), Fence) THEN Strip(Slice(Strip(raw), 3, 3))
    ELSE Strip(raw)

\* The members an object of the model may have: sobre_pedidos true / false,
\* cnpj_cpf "1-", nome_fantasia "A", cidade "c", cidade "".
MemberSymbols == {"T", "F", "C", "N", "D", "E"}

\* The object built from the member symbols ms[i..]: a repeated key keeps
\* its last value.
RECURSIVE ParseMembers(_, _, _)
ParseMembers(ms, i, d) ==
    IF i > Len(ms) THEN d
    ELSE ParseMembers(ms, i + 1,
            CASE ms[i] = "T" -> [d EXCEPT !.sobre_pedidos = "true"]
              [] ms[i] = "F" -> [d EXCEPT !.sobre_pedidos = "false"]
              [] ms[i] = "C" -> [d EXCEPT !.cnpj_cpf = Some(<<"1", "-">>)]
              [] ms[i] = "N" -> [d EXCEPT !.nome_fantasia = Some(<<"A">>)]
              [] ms[i] = "D" -> [d EXCEPT !.cidade = Some(<<"c">>)]
              [] OTHER -> [d EXCEPT !.cidade = Some(<<>>)])

\* json.loads on the texts of the model
ParseJson(text) ==
    LET s == Strip(text)
        inner == SelectSeq(SubSeq(s, 2, Len(s) - 1), LAMBDA c : ~IsSpace(c))
    IN IF s = <<"[", "]">> THEN JOther("list")
       ELSE IF s = <<"1">> THEN JOther("number")
       ELSE IF /\ Len(s) >= 2
               /\ s[1] = "{"
               /\ s[Len(s)] = "}"
               /\ \A i \in 1..Len(inner) : inner[i] \in MemberSymbols
       THEN ParseMembers(inner, 1, JDict("ausente", None, None, None))
       ELSE JOther("JSONDecodeError")

\* server.py 331-338: strip the fence, parse
Interpret(raw) == ParseJson(ExtractJson(raw))

----------------------------------------------------------------------------
(* responder_pergunta_sobre_pedidos as a process (server.py 286-401). *)

\* The two prompts sent to the model
LLMRequest(which) == Request(which, 0, 0, {}, 0)

\* A reply of generate_content_async: it raised, or it carries a text.
LLMRaised == [raised |-> TRUE, text |-> <<>>]
LLMText(t) == [raised |-> FALSE, text |-> t]

\* Mutant of AfterAnalysis: only an explicit false ends the pipeline.
AfterAnalysisFlagOptional(d) ==
    IF d.tipo = "JSONDecodeError" THEN Str("NaoEntendi", 0)
    ELSE IF d.tipo # "dict" THEN Raised("AttributeError")
    ELSE IF d.sobre_pedidos = "false" THEN Str("ForaDeEscopo", 0)
    ELSE IF ~AnyHint(d.cnpj_cpf, d.nome_fantasia, d.cidade) THEN Str("InformeIdentificador", 0)
    ELSE NoResult

\* Mutant of AfterAnalysis: the hints are not checked before the resolver runs.
AfterAnalysisNoHintCheck(d) ==
    IF d.tipo = "JSONDecodeError" THEN Str("NaoEntendi", 0)
    ELSE IF d.tipo # "dict" THEN Raised("AttributeError")
    ELSE IF d.sobre_pedidos # "true" THEN Str("ForaDeEscopo", 0)
    ELSE NoResult

\* server.py 341-358: what the orchestrator does with the parsed reply.  ret is
\* what it returns or raises at once, NoResult when it goes on to the resolver.
AfterAnalysis(d) ==
    IF d.tipo = "JSONDecodeError" THEN Str("NaoEntendi", 0)
    ELSE IF d.tipo # "dict" THEN Raised("AttributeError")
    ELSE IF d.sobre_pedidos # "true" THEN Str("ForaDeEscopo", 0)
    ELSE IF ~AnyHint(d.cnpj_cpf, d.nome_fantasia, d.cidade) THEN Str("InformeIdentificador", 0)
    ELSE NoResult

\* server.py 293-327: the model object, the structuring prompt
IAIniciar ==
    /\ pc = "ia_inicio"
    /\ \E ok \in BOOLEAN :
        IF ok
        THEN /\ calls' = Append(calls, LLMRequest("analise"))
             /\ pc' = "ia_aguarda_analise"
             /\ UNCHANGED ia_result
        ELSE /\ ia_result' = Str("IAIndisponivel", 0)
             /\ pc' = "done"
             /\ UNCHANGED calls
    /\ UNCHANGED <<inv, apiVars, caller, argVars, scanVars, histVars, pedidoVars, result,
                   raw_response_text, dados_interpretados>>

\* server.py 327-366: the structuring reply arrives
IAReceberAnaliseDe(replies) ==
    /\ pc = "ia_aguarda_analise"
    /\ \E reply \in replies :
        IF reply.raised
        THEN /\ ia_result' = Str("ErroAnaliseIA", 0)
             /\ pc' = "done"
             /\ UNCHANGED <<argVars, raw_response_text, dados_interpretados>>
        ELSE LET d == Interpret(reply.text)
             IN /\ raw_response_text' = reply.text
                /\ dados_interpretados' = IF d.tipo = "JSONDecodeError"
                                          THEN dados_interpretados ELSE d
                /\ ia_result' = AfterAnalysis(d)
                /\ IF AfterAnalysis(d) # NoResult
                   THEN pc' = "done" /\ UNCHANGED argVars
                   ELSE /\ cnpj_cpf' = d.cnpj_cpf
                        /\ nome_fantasia' = d.nome_fantasia
                        /\ cidade' = d.cidade
                        /\ pc' = "inicio"
    /\ UNCHANGED <<inv, apiVars, caller, scanVars, calls, histVars, pedidoVars, result>>

\* Mutant of IARetorno: a str result is not told from a list of orders.
IARetornoSemIsinstance ==
    /\ pc = "ia_retorno"
    /\ IF result.kind = "raise"
       THEN /\ ia_result' = result
            /\ pc' = "done"
            /\ UNCHANGED calls
       ELSE /\ calls' = Append(calls, LLMRequest("resposta"))
            /\ pc' = "ia_aguarda_resposta"
            /\ UNCHANGED ia_result
    /\ UNCHANGED <<inv, apiVars, caller, argVars, scanVars, histVars, pedidoVars, result,
                   raw_response_text, dados_interpretados>>

\* server.py 362-395: encontrar_pedidos_cliente returned, or raised
IARetorno ==
    /\ pc = "ia_retorno"
    /\ IF result.kind = "raise"
       THEN /\ ia_result' = result
            /\ pc' = "done"
            /\ UNCHANGED calls
       ELSE IF result.kind = "str"
       THEN /\ ia_result' = Str("NaoConseguiEncontrar", 0)
            /\ pc' = "done"
            /\ UNCHANGED calls
       ELSE IF result.orders = <<>>
       THEN /\ ia_result' = Str("NaoEncontreiPedidos", 0)
            /\ pc' = "done"
            /\ UNCHANGED calls
       ELSE /\ calls' = Append(calls, LLMRequest("resposta"))
            /\ pc' = "ia_aguarda_resposta"
            /\ UNCHANGED ia_result
    /\ UNCHANGED <<inv, apiVars, caller, argVars, scanVars, histVars, pedidoVars, result,
                   raw_response_text, dados_interpretados>>

\* server.py 395-401: the answer arrives
IAReceberResposta ==
    /\ pc = "ia_aguarda_resposta"
    /\ \E raised \in BOOLEAN :
        ia_result' = IF raised THEN Str("ErroRespostaFinal", 0) ELSE Str("RespostaIA", 0)
    /\ pc' = "done"
    /\ UNCHANGED <<inv, apiVars, caller, argVars, scanVars, calls, histVars, pedidoVars, result,
                   raw_response_text, dados_interpretados>>

----------------------------------------------------------------------------
(* The replies of the model. *)

\* The labels a fence may carry: none, json, and two others.
FenceLabels == {<<>>, JsonLabel, <<"J", "S", "O", "N">>, <<"j", "s">>}

\* J inside a fenced code block with the given label
Wrap(label, doc) == Fence \o label \o <<"\n">> \o doc \o <<"\n">> \o Fence

\* The JSON bodies: objects of up to two members, a list, a number.
JsonBodies ==
    { <<"{">> \o ms \o <<"}">> :
        ms \in {<<>>} \cup { <<a>> : a \in MemberSymbols }
                      \cup { <<a, b>> : a \in {"T", "F"}, b \in {"C", "N", "D", "E"} } }
    \cup {<<"[", "]">>, <<"1">>}

\* The bodies a reply may carry: JSON, or a text that is no JSON.
JsonDocs == JsonBodies \cup {<<"{">>}

Padding == {<<>>, <<" ">>, <<"\n">>}

\* Every reply text of the fence check: a body alone or fenced, padded.
FenceReplies ==
    { l \o t \o r : l \in Padding, r \in Padding,
        t \in JsonDocs \cup { Wrap(lb, doc) : lb \in FenceLabels, doc \in JsonDocs } }

\* The replies of the full pipeline.
IAReplies ==
    {LLMRaised}
    \cup { LLMText(doc) : doc \in JsonDocs }
    \cup { LLMText(<<"{", "T", "C", "N", "D", "}">>),
           LLMText(Wrap(JsonLabel, <<"{", "T", "N", "}">>)),
           LLMText(Wrap(<<>>, <<"{", "T", "C", "}">>)),
           LLMText(Wrap(<<"j", "s">>, <<"{", "T", "C", "}">>)) }

InitIAStart ==
    /\ pc = "ia_inicio"
    /\ caller = "ia"
    /\ cnpj_cpf = None
    /\ nome_fantasia = None
    /\ cidade = None
    /\ InitCommon
    /\ InitIA

IAReceberAnalise == IAReceberAnaliseDe(IAReplies)

NextIA ==
    \/ IAIniciar
    \/ IAReceberAnalise
    \/ Iniciar
    \/ ReceberClientes
    \/ ReceberPedidos
    \/ IARetorno
    \/ IAReceberResposta

SpecIA == InitIAStart /\ [][NextIA]_vars

----------------------------------------------------------------------------
(* The fence stripping alone, over every reply text. *)

InitFence ==
    /\ pc = "fence_in"
    /\ caller = "ia"
    /\ cnpj_cpf = None
    /\ nome_fantasia = None
    /\ cidade = None
    /\ InitCommon
    /\ raw_response_text \in FenceReplies
    /\ dados_interpretados = JOther("none")
    /\ ia_result = NoResult

\* server.py 331-338 applied to the reply
Interpretar ==
    /\ pc = "fence_in"
    /\ dados_interpretados' = Interpret(raw_response_text)
    /\ pc' = "fence_out"
    /\ UNCHANGED <<inv, apiVars, caller, argVars, scanVars, calls, histVars, pedidoVars, result,
                   raw_response_text, ia_result>>

NextFence == Interpretar

SpecFence == InitFence /\ [][NextFence]_vars

----------------------------------------------------------------------------
(* The orders alone, over every ListarPedidos response: the tool waits for *)
(* ListarPedidos after the tax-id query 1- found its customer on the only  *)
(* directory page.                                                         *)

InitPedidos ==
    \E c \in { r \in ClienteRecords :
                 r.codigo_cliente_omie # 0 /\ OnlyDigits(r.cnpj_cpf) = <<"1">> } :
        /\ pc = "aguarda_pedidos"
        /\ caller = "tool"
        /\ cnpj_cpf = Some(<<"1", "-">>)
        /\ nome_fantasia = None
        /\ cidade = None
        /\ normalized_input_cnpj_cpf = Some(<<"1">>)
        /\ current_page = 1
        /\ total_pages = 1
        /\ customer_id = c.codigo_cliente_omie
        /\ found_customer_details = <<c>>
        /\ possible_matches_by_name = <<>>
        /\ calls = <<ListarClientesRequest(1, Some(<<"1">>), None, None),
                     ListarPedidosRequest(c.codigo_cliente_omie)>>
        /\ first_total = 1
        /\ total_changed = FALSE
        /\ seen_cnpj = <<Seen(1, c)>>
        /\ seen_nome = <<>>
        /\ pedidos_venda_produto = <<>>
        /\ sort_failed = FALSE
        /\ result = NoResult
        /\ InitIA
        /\ InitApi
        /\ InitInv

ReceberPedidosTodos == ReceberPedidosDe(PedidoResponses)

NextPedidos == ReceberPedidosTodos

SpecPedidos == InitPedidos /\ [][NextPedidos]_vars

\* The negation of an initial state of SpecPedidos.  As an invariant of Spec it
\* is violated: the tool reaches that state (a tax-id hit on a one-page directory).
InitPedidosNotReached ==
    ~(/\ pc = "aguarda_pedidos"
      /\ cnpj_cpf = Some(<<"1", "-">>) /\ nome_fantasia = None /\ cidade = None
      /\ current_page = 1 /\ total_pages = 1 /\ first_total = 1 /\ ~total_changed
      /\ customer_id = 2
      /\ found_customer_details = <<Cliente(<<"1">>, <<"A", "b">>, 2)>>
      /\ possible_matches_by_name = <<>>
      /\ calls = <<ListarClientesRequest(1, Some(<<"1">>), None, None), ListarPedidosRequest(2)>>
      /\ seen_cnpj = <<Seen(1, Cliente(<<"1">>, <<"A", "b">>, 2))>> /\ seen_nome = <<>>
      /\ normalized_input_cnpj_cpf = Some(<<"1">>)
      /\ pedidos_venda_produto = <<>> /\ ~sort_failed /\ result = NoResult)

----------------------------------------------------------------------------
(* call_omie_api alone, over every exchange. *)

Statuses == {200, 201, 404, 500}

Bodies ==
    {InvalidBody, ListBody}
    \cup { DictBody(fs, fc, pl) : fs \in JsonValues, fc \in JsonValues, pl \in BOOLEAN }

Exchanges == {RequestFailed} \cup { HttpResponse(st, b) : st \in Statuses, b \in Bodies }

InitOmie ==
    /\ pc = "api_chamada"
    /\ caller = "tool"
    /\ cnpj_cpf = None
    /\ nome_fantasia = None
    /\ cidade = None
    /\ InitCommon
    /\ InitIA

\* client.post is awaited and meets an exchange
Post ==
    /\ pc = "api_chamada"
    /\ \E x \in Exchanges : exchange' = x
    /\ pc' = "api_resposta"
    /\ UNCHANGED <<inv, api_response, caller, argVars, scanVars, calls, histVars, pedidoVars,
                   result, iaVars>>

\* the rest of call_omie_api
CallOmieApi ==
    /\ pc = "api_resposta"
    /\ api_response' = CallOmieApiResult(exchange)
    /\ pc' = "api_fim"
    /\ UNCHANGED <<inv, exchange, caller, argVars, scanVars, calls, histVars, pedidoVars,
                   result, iaVars>>

NextOmie == Post \/ CallOmieApi

SpecOmie == InitOmie /\ [][NextOmie]_vars

----------------------------------------------------------------------------
(* Two invocations of encontrar_pedidos_cliente on one event loop: each    *)
(* runs from await to await, in any interleaving.                          *)

\* server.py 188-219 on the locals loc: return a string, or go on to
\* ListarPedidos
AfterLoop(loc) ==
    LET d == Decide(ScanState(loc.customer_id, loc.found_customer_details,
                              loc.possible_matches_by_name, FALSE))
    IN [loc |-> [loc EXCEPT !.customer_id = d.cid, !.found_customer_details = d.found],
        next |-> IF d.ret # NoResult THEN "done" ELSE "aguarda_pedidos",
        ret |-> d.ret]

\* Mutant of AfterClientes: an error response ends the loop (break) instead of
\* the invocation (return).
AfterClientesErrorBreaks(loc, nome, resp) ==
    IF resp.error
    THEN AfterLoop(loc)
    ELSE LET tp == NextTotalPages(loc.current_page, loc.total_pages, resp)
             st == ScanPage(resp.clientes_cadastro, 1, loc.normalized_input_cnpj_cpf, nome,
                            ScanState(loc.customer_id, loc.found_customer_details,
                                      loc.possible_matches_by_name, FALSE))
             scanned == [loc EXCEPT !.total_pages = tp,
                                    !.customer_id = st.customer_id,
                                    !.found_customer_details = st.found_customer_details,
                                    !.possible_matches_by_name = st.possible_matches_by_name]
             turned == [scanned EXCEPT !.current_page = @ + 1]
         IN IF st.dup
            THEN [loc |-> scanned, next |-> "done", ret |-> Str("MultiplosCnpjCpf", 0)]
            ELSE IF st.customer_id # 0 THEN AfterLoop(scanned)
            ELSE IF resp.clientes_cadastro = <<>> /\ loc.current_page = 1 /\ tp = 1
            THEN [loc |-> scanned, next |-> "done",
                  ret |-> Str("NaoEncontradoPrimeiraPagina", 0)]
            ELSE IF turned.current_page <= tp
            THEN [loc |-> turned, next |-> "aguarda_clientes", ret |-> NoResult]
            ELSE AfterLoop(turned)

\* server.py 147-219 on the locals loc: what a ListarClientes response leads
\* to (the locals, where the invocation waits next, what it returns)
AfterClientes(loc, nome, resp) ==
    IF resp.error
    THEN [loc |-> loc, next |-> "done", ret |-> Str("ErroBuscarCliente", loc.current_page)]
    ELSE LET tp == NextTotalPages(loc.current_page, loc.total_pages, resp)
             st == ScanPage(resp.clientes_cadastro, 1, loc.normalized_input_cnpj_cpf, nome,
                            ScanState(loc.customer_id, loc.found_customer_details,
                                      loc.possible_matches_by_name, FALSE))
             scanned == [loc EXCEPT !.total_pages = tp,
                                    !.customer_id = st.customer_id,
                                    !.found_customer_details = st.found_customer_details,
                                    !.possible_matches_by_name = st.possible_matches_by_name]
             turned == [scanned EXCEPT !.current_page = @ + 1]
         IN IF st.dup
            THEN [loc |-> scanned, next |-> "done", ret |-> Str("MultiplosCnpjCpf", 0)]
            ELSE IF st.customer_id # 0 THEN AfterLoop(scanned)
            ELSE IF resp.clientes_cadastro = <<>> /\ loc.current_page = 1 /\ tp = 1
            THEN [loc |-> scanned, next |-> "done",
                  ret |-> Str("NaoEncontradoPrimeiraPagina", 0)]
            ELSE IF turned.current_page <= tp
            THEN [loc |-> turned, next |-> "aguarda_clientes", ret |-> NoResult]
            ELSE AfterLoop(turned)

\* The hints of the concurrent invocations and what the upstream answers them.
ConcQueries ==
    { <<Some(<<"1", "-">>), None, None>>, <<None, Some(<<"A">>), None>>,
      <<None, None, None>> }

ConcPages ==
    { <<>>, <<Cliente(<<"1", ".">>, <<"a">>, 1)>>,
      <<Cliente(<<"1">>, <<"A", "b">>, 2), Cliente(<<"1", ".">>, <<"b">>, 0)>> }

ConcClienteResponses ==
    {ErrorResponse} \cup { ClientePayload(t, cs) : t \in {1, MaxPages}, cs \in ConcPages }

ConcPedidoResponses ==
    {PedidoErrorResponse, PedidoPayload(<<>>),
     PedidoPayload(<<Pedido(StrKey(<<"1", "0">>), "10"), Pedido(StrKey(<<"9">>), "60")>>)}

InitConc ==
    /\ pc = "concorrente"
    /\ caller = "tool"
    /\ cnpj_cpf = None
    /\ nome_fantasia = None
    /\ cidade = None
    /\ InitApi
    /\ normalized_input_cnpj_cpf = None
    /\ current_page = 1
    /\ total_pages = 1
    /\ customer_id = 0
    /\ found_customer_details = None
    /\ possible_matches_by_name = <<>>
    /\ calls = <<>>
    /\ first_total = Absent
    /\ total_changed = FALSE
    /\ seen_cnpj = <<>>
    /\ seen_nome = <<>>
    /\ pedidos_venda_produto = <<>>
    /\ sort_failed = FALSE
    /\ result = NoResult
    /\ InitIA
    /\ inv \in [Procs -> { Invocation(q[1], q[2], q[3]) : q \in ConcQueries }]

ConcFrame ==
    UNCHANGED <<pc, caller, argVars, scanVars, calls, histVars, pedidoVars, result, iaVars,
                apiVars>>

\* server.py 100-147 in invocation p
ConcIniciar(p) ==
    /\ inv[p].pc = "inicio"
    /\ IF ~AnyHint(inv[p].cnpj_cpf, inv[p].nome_fantasia, inv[p].cidade)
       THEN inv' = [inv EXCEPT ![p].pc = "done", ![p].result = Str("ErroValidacao", 0)]
       ELSE inv' = [inv EXCEPT ![p].pc = "aguarda_clientes",
                               ![Frame(p)].loc = FreshLoc(inv[p].cnpj_cpf)]
    /\ ConcFrame

\* server.py 147-219 in invocation p
ConcReceberClientes(p) ==
    /\ inv[p].pc = "aguarda_clientes"
    /\ \E resp \in ConcClienteResponses :
        LET a == AfterClientes(inv[Frame(p)].loc, inv[p].nome_fantasia, resp)
        IN inv' = [inv EXCEPT ![p].pc = a.next,
                              ![p].result = a.ret,
                              ![p].received = Append(@, resp),
                              ![Frame(p)].loc = a.loc]
    /\ ConcFrame

\* server.py 219-282 in invocation p
ConcReceberPedidos(p) ==
    /\ inv[p].pc = "aguarda_pedidos"
    /\ \E resp \in ConcPedidoResponses :
        inv' = [inv EXCEPT ![p].pc = "done",
                           ![p].result = PedidosResult(resp, inv[Frame(p)].loc.customer_id),
                           ![p].received = Append(@, resp)]
    /\ ConcFrame

NextConc ==
    \E p \in Procs : ConcIniciar(p) \/ ConcReceberClientes(p) \/ ConcReceberPedidos(p)

SpecConc == InitConc /\ [][NextConc]_vars

----------------------------------------------------------------------------
(* The claims. *)

ClientesCalls == SelectSeq(calls, LAMBDA r : r.call = "ListarClientes")
PedidosCalls == SelectSeq(calls, LAMBDA r : r.call = "ListarPedidos")

\* The page loop is over: the tool waits for ListarPedidos or has returned.
ScanOver == pc \in {"aguarda_pedidos", "done"}

\* A ListarClientes request came back as the error object.
DirectoryFailed == result.kind = "str" /\ result.msg = "ErroBuscarCliente"

EmptyOrAbsent(h) == h = None \/ h = Some(<<>>)

Least(a, b) == IF a < b THEN a ELSE b

\* C1: when cnpj_cpf, nome_fantasia and cidade are all empty or absent, the
\* tool returns the validation error and never issues a records-API request.
C1_EmptyQueryRejected ==
    (EmptyOrAbsent(cnpj_cpf) /\ EmptyOrAbsent(nome_fantasia) /\ EmptyOrAbsent(cidade))
    => /\ calls = <<>>
       /\ pc \in {"inicio", "done"}
       /\ pc = "done" => result = Str("ErroValidacao", 0)

C1_Witness ==
    /\ pc = "done"
    /\ cnpj_cpf = Some(<<>>) /\ nome_fantasia = None /\ cidade = Some(<<>>)
    /\ result = Str("ErroValidacao", 0)
    /\ calls = <<>>

\* The customer of history entry s is resolved: it is the customer found, the
\* pages 1..s.pagina were requested once each and no other, and ListarPedidos
\* for its id is the next request.
ResolvedTo(s) ==
    /\ found_customer_details = <<s.cliente>>
    /\ customer_id = s.cliente.codigo_cliente_omie
    /\ Len(calls) = s.pagina + 1
    /\ \A i \in 1..s.pagina : calls[i].call = "ListarClientes" /\ calls[i].pagina = i
    /\ calls[s.pagina + 1] = ListarPedidosRequest(s.cliente.codigo_cliente_omie)

\* C2 as claimed: a tax-id hint is given, exactly one record of the directory
\* has the hint's digits-only tax-id and no directory request failed; then the
\* scan ends with that record resolved, no later page requested.
C2_AsClaimed ==
    (ScanOver /\ Truthy(cnpj_cpf) /\ Len(seen_cnpj) = 1 /\ ~DirectoryFailed)
    => ResolvedTo(seen_cnpj[1])

\* C2 amended: the same, for a hint with at least one digit and a record that
\* carries a customer id; it holds from the moment the record is received.
C2_DirectHitResolves ==
    (/\ Truthy(cnpj_cpf)
     /\ OnlyDigits(cnpj_cpf[1]) # <<>>
     /\ Len(seen_cnpj) = 1
     /\ seen_cnpj[1].cliente.codigo_cliente_omie # 0)
    => ScanOver /\ ResolvedTo(seen_cnpj[1])

C2_Witness ==
    /\ pc = "done"
    /\ result.kind = "list"
    /\ Len(seen_cnpj) = 1
    /\ seen_cnpj[1].pagina = 1
    /\ total_pages = 2
    /\ Len(ClientesCalls) = 1
    /\ Len(PedidosCalls) = 1

\* C3: the bound that ends the page loop is the total_de_paginas of the page-1
\* response (1 when absent), whatever later responses report, and no more
\* pages than that bound (at least one) are requested.
C3_BoundFromFirstPage ==
    /\ total_pages = (IF first_total = Absent THEN 1 ELSE first_total)
    /\ Len(ClientesCalls) <= (IF total_pages < 1 THEN 1 ELSE total_pages)

C3_Witness ==
    /\ pc = "done"
    /\ total_changed
    /\ first_total = 2
    /\ total_pages = 2
    /\ Len(ClientesCalls) = 2

DistinctNamesSeen == { seen_nome[i].cliente.nome_fantasia : i \in 1..Len(seen_nome) }

\* C4 as claimed: the name hint is contained, whatever the case, in display
\* names of the directory that are two or more distinct names; then the result
\* is the ambiguous-name error carrying the number of distinct names.
C4_AsClaimed ==
    (/\ ScanOver
     /\ Truthy(nome_fantasia)
     /\ Cardinality(DistinctNamesSeen) >= 2
     /\ ~DirectoryFailed)
    => result = Str("MultiplosNomeFantasia", Cardinality(DistinctNamesSeen))

\* C4 amended: the same when no tax-id hint with a digit is given; and no
\* ListarPedidos request is issued.
C4_AmbiguousName ==
    (/\ ScanOver
     /\ Truthy(nome_fantasia)
     /\ ~(Truthy(cnpj_cpf) /\ OnlyDigits(cnpj_cpf[1]) # <<>>)
     /\ Cardinality(DistinctNamesSeen) >= 2
     /\ ~DirectoryFailed)
    => /\ pc = "done"
       /\ result = Str("MultiplosNomeFantasia", Cardinality(DistinctNamesSeen))
       /\ PedidosCalls = <<>>

C4_Witness ==
    /\ pc = "done"
    /\ result = Str("MultiplosNomeFantasia", 2)
    /\ Len(seen_nome) = 3
    /\ seen_nome[1].pagina = 1
    /\ seen_nome[3].pagina = 2

\* The reply is the JSON body doc in a fence with one of the labels, padded.
FencedReply(labels, doc) ==
    \E l \in Padding, r \in Padding, lb \in labels :
        raw_response_text = l \o Wrap(lb, doc) \o r

\* C5 as claimed: a JSON body in a fenced block, whatever its label, is parsed
\* to what the same body parses to without the fence.
C5_AsClaimed ==
    pc = "fence_out"
    => \A doc \in JsonBodies :
         FencedReply(FenceLabels, doc) => dados_interpretados = Interpret(doc)

\* C5 amended: the same for a fence labelled json or not labelled.
C5_JsonOrNoLabel ==
    pc = "fence_out"
    => \A doc \in JsonBodies :
         FencedReply({<<>>, JsonLabel}, doc) => dados_interpretados = Interpret(doc)

C5_Witness ==
    /\ pc = "fence_out"
    /\ raw_response_text = Wrap(JsonLabel, <<"{", "T", "C", "}">>)
    /\ dados_interpretados = JDict("true", Some(<<"1", "-">>), None, None)

\* C6: when the interpreted sobre_pedidos is false or missing, the
\* orchestrator returns the scope rejection, whatever hints were extracted,
\* having issued the structuring prompt and nothing else.
C6_NotAboutOrders ==
    (dados_interpretados.tipo = "dict" /\ dados_interpretados.sobre_pedidos \in {"false", "ausente"})
    => /\ pc = "done"
       /\ ia_result = Str("ForaDeEscopo", 0)
       /\ calls = <<LLMRequest("analise")>>

C6_Witness ==
    /\ pc = "done"
    /\ dados_interpretados = JDict("false", Some(<<"1", "-">>), None, None)
    /\ ia_result = Str("ForaDeEscopo", 0)

\* C7: when the question is about orders and the three hints are null or
\* empty, the orchestrator asks for an identifier, having issued the
\* structuring prompt and nothing else.
C7_NoIdentifier ==
    (/\ dados_interpretados.tipo = "dict"
     /\ dados_interpretados.sobre_pedidos = "true"
     /\ EmptyOrAbsent(dados_interpretados.cnpj_cpf)
     /\ EmptyOrAbsent(dados_interpretados.nome_fantasia)
     /\ EmptyOrAbsent(dados_interpretados.cidade))
    => /\ pc = "done"
       /\ ia_result = Str("InformeIdentificador", 0)
       /\ calls = <<LLMRequest("analise")>>

C7_Witness ==
    /\ pc = "done"
    /\ dados_interpretados = JDict("true", None, None, Some(<<>>))
    /\ ia_result = Str("InformeIdentificador", 0)

\* C8: whatever every stage does, responder_pergunta_sobre_pedidos ends by
\* returning a string.
C8_AlwaysAString == pc = "done" => ia_result.kind = "str"

\* The place of upstream order j in a stable descending sort by the text of
\* the order number.
Rank(j) ==
    LET p == pedidos_venda_produto
    IN 1 + Cardinality({ k \in 1..Len(p) :
                           StrLess(p[j].numero_pedido.s, p[k].numero_pedido.s) })
         + Cardinality({ k \in 1..(j - 1) : p[k].numero_pedido.s = p[j].numero_pedido.s })

\* The summary of an upstream order with an order number
Summary(p) == [numero_pedido |-> p.numero_pedido, etapa_pedido |-> p.etapa]

\* C9: n >= 1 orders, all with str order numbers, come back as the first
\* min(3, n) of the list sorted by order number as text, descending.
C9_TextOrderDescending ==
    (/\ pc = "done"
     /\ pedidos_venda_produto # <<>>
     /\ \A i \in 1..Len(pedidos_venda_produto) :
            /\ pedidos_venda_produto[i].cabecalho = "dict"
            /\ pedidos_venda_produto[i].numero_pedido.tipo = "str")
    => /\ result.kind = "list"
       /\ Len(result.orders) = Least(3, Len(pedidos_venda_produto))
       /\ \A j \in 1..Len(pedidos_venda_produto) :
            Rank(j) <= 3 => result.orders[Rank(j)] = Summary(pedidos_venda_produto[j])

C9_Witness ==
    /\ pc = "done"
    /\ pedidos_venda_produto = <<Pedido(StrKey(<<"1", "0">>), "10"), Pedido(StrKey(<<"9">>), "10")>>
    /\ result.kind = "list"
    /\ result.orders[1].numero_pedido = StrKey(<<"9">>)
    /\ result.orders[2].numero_pedido = StrKey(<<"1", "0">>)

\* C10: when sorted() raised, the tool still returns the first min(3, n)
\* orders, in the order the upstream sent them.
C10_SortFailureFallsBack ==
    (pc = "done" /\ sort_failed)
    => /\ result.kind = "list"
       /\ Len(result.orders) = Least(3, Len(pedidos_venda_produto))
       /\ \A i \in 1..Len(result.orders) :
            result.orders[i] = FormatOrder(pedidos_venda_produto[i])


\* C11: a 2xx response whose JSON object has a faultstring key or a faultcode
\* key, whatever the value under it, comes back from call_omie_api as the
\* uniform error object, never as the body.
C11_FaultKeyIsError ==
    (/\ pc = "api_fim"
     /\ ~exchange.falha
     /\ IsSuccessStatus(exchange.status)
     /\ exchange.corpo.tipo = "dict"
     /\ (exchange.corpo.faultstring # "ausente" \/ exchange.corpo.faultcode # "ausente"))
    => api_response.error


\* The stage of the pipeline an external call belongs to.
Stage(r) ==
    CASE r.call = "analise" -> 1
      [] r.call = "ListarClientes" -> 2
      [] r.call = "ListarPedidos" -> 3
      [] r.call = "resposta" -> 4

CallsOfStage(k) == SelectSeq(calls, LAMBDA r : Stage(r) = k)

\* The stage that failed, by what it left behind.
AnalysisFailed ==
    /\ pc = "done"
    /\ \/ ia_result.kind = "str" /\ ia_result.msg \in {"ErroAnaliseIA", "NaoEntendi"}
       \/ ia_result.kind = "raise" /\ result = NoResult
ResolverFailed ==
    /\ result.kind = "str"
    /\ result.msg \in {"ErroValidacao", "ErroBuscarCliente", "MultiplosCnpjCpf",
                       "NaoEncontradoPrimeiraPagina", "MultiplosNomeFantasia",
                       "NaoEncontradoAposPaginas"}
RetrieverFailed ==
    \/ result.kind = "raise"
    \/ result.kind = "str" /\ result.msg \in {"ErroBuscarPedidos", "NenhumPedidoEncontrado",
                                               "NenhumPedidoProcessado"}

\* C12: the external calls of the orchestrator come stage after stage; a run
\* that returns a synthesized answer made one structuring call, one or more
\* ListarClientes calls, one ListarPedidos call for page 1 and one answer
\* call, in this order; and after a stage failed no call of a later stage is
\* made.
C12_CallOrder ==
    /\ \A i, j \in 1..Len(calls) : i < j => Stage(calls[i]) <= Stage(calls[j])
    /\ Len(CallsOfStage(1)) <= 1 /\ Len(CallsOfStage(3)) <= 1 /\ Len(CallsOfStage(4)) <= 1
    /\ \A i \in 1..Len(calls) : Stage(calls[i]) = 3 => calls[i].pagina = 1
    /\ (pc = "done" /\ ia_result = Str("RespostaIA", 0))
       => /\ Len(CallsOfStage(1)) = 1
          /\ Len(CallsOfStage(2)) >= 1
          /\ Len(CallsOfStage(3)) = 1
          /\ Len(CallsOfStage(4)) = 1
    /\ (pc = "done" /\ ia_result = Str("IAIndisponivel", 0)) => calls = <<>>
    /\ AnalysisFailed => calls = <<LLMRequest("analise")>>
    /\ ResolverFailed => CallsOfStage(3) = <<>> /\ CallsOfStage(4) = <<>>
    /\ RetrieverFailed => CallsOfStage(4) = <<>>

C12_Witness ==
    /\ pc = "done"
    /\ ia_result = Str("RespostaIA", 0)
    /\ Len(calls) = 5
    /\ Stage(calls[2]) = 2 /\ Stage(calls[3]) = 2


\* An invocation run alone: where it is and what it returned after the
\* hints c, n, d and the first k of the responses rs.
RECURSIVE RunAlone(_, _, _, _, _)
RunAlone(c, n, d, rs, k) ==
    IF k = 0
    THEN IF ~AnyHint(c, n, d)
         THEN [pc |-> "done", loc |-> FreshLoc(None), result |-> Str("ErroValidacao", 0)]
         ELSE [pc |-> "aguarda_clientes", loc |-> FreshLoc(c), result |-> NoResult]
    ELSE LET s == RunAlone(c, n, d, rs, k - 1)
         IN IF s.pc = "aguarda_clientes"
            THEN LET a == AfterClientes(s.loc, n, rs[k])
                 IN [pc |-> a.next, loc |-> a.loc, result |-> a.ret]
            ELSE [pc |-> "done", loc |-> s.loc,
                  result |-> PedidosResult(rs[k], s.loc.customer_id)]

AloneOf(p) ==
    RunAlone(inv[p].cnpj_cpf, inv[p].nome_fantasia, inv[p].cidade, inv[p].received,
             Len(inv[p].received))

\* C13: whatever the interleaving of two invocations, each one is where it
\* would be, and has returned what it would have returned, had it run alone
\* on the responses it received.
C13_InvocationsIndependent ==
    \A p \in Procs :
        inv[p].pc # "inicio"
        => inv[p].pc = AloneOf(p).pc /\ inv[p].result = AloneOf(p).result

\* Both invocations are under way: the first waits for its second page with a
\* name match collected, the second has resolved its customer and waits for
\* the orders.
C13_Witness ==
    /\ inv[1].pc = "aguarda_clientes"
    /\ inv[1].loc.current_page = 2
    /\ inv[1].loc.possible_matches_by_name # <<>>
    /\ inv[2].pc = "aguarda_pedidos"
    /\ inv[2].loc.customer_id # 0
    /\ inv[2].loc.possible_matches_by_name = <<>>


\* C14: a tax-id hint is given and more than one record received, on one page
\* or on several, has the hint's digits-only tax-id; then the result is the
\* error for several records with one tax-id, and no customer is picked.
C14_SeveralTaxIdHitsFail ==
    (ScanOver /\ Truthy(cnpj_cpf) /\ Len(seen_cnpj) >= 2 /\ ~DirectoryFailed)
    => /\ pc = "done"
       /\ result = Str("MultiplosCnpjCpf", 0)
       /\ PedidosCalls = <<>>


\* C15: a query by name alone received two or more records whose display
\* name contains the hint, all with one and the same display name; then the
\* customer resolved is the first of them in scan order, and the orders are
\* requested for its id.
C15_FirstOfSameName ==
    (/\ ScanOver
     /\ Truthy(nome_fantasia) /\ EmptyOrAbsent(cnpj_cpf) /\ EmptyOrAbsent(cidade)
     /\ Len(seen_nome) >= 2
     /\ Cardinality(DistinctNamesSeen) = 1
     /\ ~DirectoryFailed)
    => /\ found_customer_details = <<seen_nome[1].cliente>>
       /\ customer_id = seen_nome[1].cliente.codigo_cliente_omie
       /\ PedidosCalls = <<ListarPedidosRequest(seen_nome[1].cliente.codigo_cliente_omie)>>


\* C16: for a query with a name hint and no tax-id hint the directory pages
\* are requested in ascending order from 1, each once; and when no request
\* failed and page 1 announced T >= 1 pages, the decision is taken after
\* exactly the pages 1..T, on the list of every record received whose display
\* name contains the hint whatever the case, in scan order.
C16_NameScanCoversAllPages ==
    (Truthy(nome_fantasia) /\ EmptyOrAbsent(cnpj_cpf))
    => /\ \A i \in 1..Len(ClientesCalls) : ClientesCalls[i].pagina = i
       /\ (ScanOver /\ ~DirectoryFailed /\ first_total >= 1)
          => /\ Len(ClientesCalls) = first_total
             /\ possible_matches_by_name = [i \in 1..Len(seen_nome) |-> seen_nome[i].cliente]

C16_Witness ==
    /\ pc = "aguarda_pedidos"
    /\ Truthy(nome_fantasia) /\ cnpj_cpf = None
    /\ first_total = 2
    /\ Len(ClientesCalls) = 2
    /\ Len(seen_nome) = 2
    /\ seen_nome[1].pagina = 1
    /\ seen_nome[2].pagina = 2


\* The filter the hints call for: one key at most, the first that applies of
\* the hint's digits (when there are any), the name hint, the city hint.
FilterCalledFor ==
    IF Truthy(cnpj_cpf) /\ OnlyDigits(cnpj_cpf[1]) # <<>>
    THEN {<<"cnpj_cpf", OnlyDigits(cnpj_cpf[1])>>}
    ELSE IF Truthy(nome_fantasia) THEN {<<"nome_fantasia", nome_fantasia[1]>>}
    ELSE IF Truthy(cidade) THEN {<<"cidade", cidade[1]>>}
    ELSE {}

\* C17: every ListarClientes request of a resolution carries the filter the
\* hints call for by strict priority (tax-id digits, else name, else city,
\* else none), a filter of one key at most, and asks for 50 records a page.
C17_FilterByPriority ==
    \A i \in 1..Len(ClientesCalls) :
        /\ ClientesCalls[i].clientesFiltro = FilterCalledFor
        /\ Cardinality(ClientesCalls[i].clientesFiltro) <= 1
        /\ ClientesCalls[i].registros_por_pagina = 50

\* Two pages were requested for a query with all three hints.
C17_Witness ==
    /\ Len(ClientesCalls) = 2
    /\ Truthy(cnpj_cpf) /\ Truthy(nome_fantasia) /\ Truthy(cidade)
    /\ ClientesCalls[2].clientesFiltro = {<<"cnpj_cpf", <<"1">>>>}


\* C18: an invocation that received the error object, for a directory page
\* or for the orders, is over at once with the upstream-error string of that
\* request (the page's number in it): no response was received after the
\* error, the name matches collected before it are not used, and after a
\* directory error the orders are not requested.
C18_UpstreamErrorEndsRun ==
    \A p \in Procs :
        \A i \in 1..Len(inv[p].received) :
            inv[p].received[i].error
            => /\ i = Len(inv[p].received)
               /\ inv[p].pc = "done"
               /\ inv[p].received[i] = ErrorResponse
                  => inv[p].result = Str("ErroBuscarCliente", i)
               /\ inv[p].received[i] = PedidoErrorResponse
                  => inv[p].result = Str("ErroBuscarPedidos", 0)

\* The second directory page failed after a name match on the first.
C18_Witness ==
    /\ inv[1].received # <<>>
    /\ Len(inv[1].received) = 2
    /\ inv[1].received[2] = ErrorResponse
    /\ inv[1].loc.possible_matches_by_name # <<>>
    /\ inv[1].result = Str("ErroBuscarCliente", 2)


\* C19: once the customer is resolved and ListarPedidos did not fail, the
\* result is the no-orders string exactly when the upstream sent no order;
\* for n >= 1 orders it is a list of min(3, n) summaries; and the string for
\* orders that could not be formatted is never the result.
C19_NoOrdersIffNoneSent ==
    (pc = "done" /\ result # Str("ErroBuscarPedidos", 0))
    => /\ (result = Str("NenhumPedidoEncontrado", customer_id)) <=> (pedidos_venda_produto = <<>>)
       /\ pedidos_venda_produto # <<>>
          => /\ result.kind = "list"
             /\ Len(result.orders) = Least(3, Len(pedidos_venda_produto))
       /\ ~(result.kind = "str" /\ result.msg = "NenhumPedidoProcessado")


PageBudget ==
    LET t == IF first_total = Absent THEN 1 ELSE first_total
    IN IF t < 1 THEN 1 ELSE t

\* C21: when every records-API call returns, the pagination loop ends; the
\* i-th ListarClientes request is for page i (from 1 upwards, no page twice),
\* and there are at most max(1, T) of them, T being the total read from
\* page 1 (1 if absent).
C21_PaginationTerminates ==
    /\ [](/\ \A i \in 1..Len(ClientesCalls) : ClientesCalls[i].pagina = i
          /\ Len(ClientesCalls) <= PageBudget)
    /\ <>(pc \in {"aguarda_pedidos", "done"})

\* The loop ended after both pages announced, the second one empty.
C21_Witness ==
    /\ pc = "done"
    /\ first_total = 2
    /\ ~total_changed
    /\ Len(ClientesCalls) = 2
    /\ ClientesCalls[1].pagina = 1 /\ ClientesCalls[2].pagina = 2
    /\ result = Str("NaoEncontradoAposPaginas", 0)
    /\ seen_cnpj = <<>> /\ seen_nome = <<>>

====
